---- MODULE Spec2Model ----
(***************************************************************************)
(* The output-channel registry (OutputChannelManager), its channels        *)
(* (OutputChannel) and their resources (OutputResource).                   *)
(*                                                                         *)
(* Every handler runs to completion: one action is one call of the API,    *)
(* including the listeners that the emitters call synchronously, or one    *)
(* job of the promise job queue, or one timer callback, or the resolution  *)
(* of one deferred text model by the text-model service.                   *)
(*                                                                         *)
(* Collaborators that are not part of the repository are modelled by       *)
(* their documented behaviour:                                             *)
(*  - Emitter.fire calls the listeners synchronously, in registration      *)
(*    order; a disposed emitter has no listeners and fire does nothing;    *)
(*  - DisposableCollection.dispose disposes its elements and empties the   *)
(*    collection; push on a disposed collection just stores the element;   *)
(*  - a promise reaction is a job of a FIFO queue;                         *)
(*  - every Deferred<MonacoEditorModel> resolves to a text model of its    *)
(*    own, initially empty (one empty line);                               *)
(*  - ITextModel.applyEdits clamps an edit range to valid positions,       *)
(*    fires onDidChangeContent synchronously, and fires nothing for an     *)
(*    edit that deletes an empty range and inserts no text.                *)
(***************************************************************************)
EXTENDS Integers, Sequences, FiniteSets, TLC

\* ------------------------------------------------------------------ bounds
\* Channel instances created in one run.
MaxInst == 3
\* append / appendLine / clear calls in one run.
MaxOps == 2
\* append / appendLine / clear calls in one run with preference changes.
MaxTrimOps == 1
\* Largest value the maximum-line-count preference is changed to.
MaxPref == 2
\* Preference changes in one run.
MaxPrefChanges == 1
\* appendLine calls in one run that makes them one after the other.
MaxSeqOps == 25
\* The default of output.maxChannelHistory in OutputConfigSchema: the schema
\* is declared in output-preferences; the value stands for any positive number.
SchemaDefault == 3
\* Re-entries of handleDidChangeContent that are followed.
MaxReentries == 3
\* editor widgets requested by the OutputWidget
MaxWidgets == 3
\* actions passed to one showMessage call
MaxActions == 2
\* action objects with one title
MaxItems == 2

\* --------------------------------------------------------------- constants
\* _maxLineNumber of a new channel.
DefaultMaxLineNumber == 20
\* `undefined` as a channel reference (_selectedChannel, Map.get misses).
NoChannel == 0
\* enum OutputChannelSeverity
Error == 1
Warning == 2
Info == 3

Names == {"a", "b", "c"}
AsyncNames == {"a"}
\* the channel names of the locked-channel set
LockNames == {"a", "b"}
\* `undefined` as the name carried by a selected-channel-changed event.
NoName == "undefined"
Ids == 1..MaxInst
\* OutputUri.SCHEME
SCHEME == "output"
\* The URIs resolve is called with: a scheme and, as the path, a channel name.
Uris == [scheme : {SCHEME, "file"}, name : Names]
PrefNames == {"output.maxChannelHistory", "editor.fontSize"}
PrefValues == 1..MaxPref

\* A line is a sequence of characters; a text is the sequence of the lines
\* it consists of (text split at the line terminator), so "x\n y" is
\* << <<"x">>, <<" ", "y">> >> and "" is << <<>> >>.
EmptyText == << <<>> >>
Texts == { << <<"x">> >>, << <<"x">>, <<" ", "y">> >>, << <<" ">>, <<>>, <<"y">>, <<"x">> >> }
Lines == { <<" ", "y">>, <<>> }
\* The n-th line of a run that appends numbered lines.
LineNo(n) == <<ToString(n)>>
\* The texts of the runs that race channel operations with model creation.
AsyncTexts == { << <<"x">>, <<"y">> >> }
AsyncLines == { <<"y">> }

VARIABLES
    channels,   \* Map<string, OutputChannel>: the channel ids in insertion order
    resources,  \* Map<string, OutputResource>: name (uri) -> resource id or NoChannel
    selected,   \* _selectedChannel: a channel id or NoChannel
    toDisposeOnChannelDeletion, \* name -> set of disposables <<kind, id>>
    chan,       \* id -> the OutputChannel instance (disposedPending is history:
                \* disposed while its text model was not resolved yet)
    res,        \* id -> the OutputResource instance and its Deferred model
    nextId,     \* next instance id
    buffer,     \* resource id -> content of its text model (sequence of lines)
    listeners,  \* resource id -> onDidChangeContent listeners of its text model
    microtasks, \* the promise job queue
    events,     \* notifications the registry fired during the last action
    last,       \* the last action taken
    preTrim,    \* the text model content right after the last edit, before trimming
    ops,        \* history: the append / appendLine / clear calls made
    prefChanges, \* history: number of preference changes
    preference, \* the configured value of output.maxChannelHistory
    decorations, \* resource id -> inline class names of its text model's decorations
    storage,    \* the locked-channel set: the phase of the application, the set of
                \* names restored at startup and the set saved at shutdown
    widget,     \* the OutputWidget: its editor container, the editor widgets being
                \* created and toDisposeOnSelectedChannelChanged
    window      \* the call of WindowImpl.showMessage: its arguments, the call it
                \* made on the message service and the value its promise has

vars == <<channels, resources, selected, toDisposeOnChannelDeletion, chan, res,
          nextId, buffer, listeners, microtasks, events, last, preTrim, ops, prefChanges,
          preference, decorations, storage, widget, window>>

\* ----------------------------------------------------------------- helpers
RECURSIVE SeqRemove(_, _)
SeqRemove(s, x) ==
    IF s = <<>> THEN <<>>
    ELSE IF Head(s) = x THEN SeqRemove(Tail(s), x)
    ELSE <<Head(s)>> \o SeqRemove(Tail(s), x)

Range(s) == { s[i] : i \in 1..Len(s) }

First(s) == IF s = <<>> THEN NoChannel ELSE s[1]

NameOf(id) == IF id = NoChannel THEN NoName ELSE chan[id].name

NoLast == [op |-> "init", name |-> NoName, id |-> NoChannel, flag |-> FALSE,
           prevSel |-> NoChannel, removed |-> 0, error |-> "none", notified |-> <<>>,
           scheme |-> "none", command |-> "none", text |-> << <<>> >>,
           resourceNotified |-> <<>>,
           seen |-> [selected |-> NoChannel, events |-> <<>>], value |-> 0]

NewChannel == [name |-> NoName, resource |-> NoChannel, visible |-> FALSE,
               maxLineNumber |-> 0, disposed |-> FALSE, visListener |-> FALSE,
               disposedPending |-> FALSE, locked |-> FALSE]

\* The locked-channel set before startup: nothing restored, nothing saved.
NewStorage == [phase |-> "constructed", restored |-> {}, saved |-> {}]

\* No OutputWidget is constructed yet.
NewWidget == [listening |-> FALSE, handled |-> FALSE, container |-> <<>>,
              toDispose |-> {}, pending |-> {}, next |-> 1]

NewResource == [state |-> "none", disposed |-> FALSE, reactions |-> <<>>, timer |-> FALSE]

Created(id) == id \in Ids /\ id < nextId

\* channels.get(name)
ChannelsGet(name) ==
    LET hit == SelectSeq(channels, LAMBDA id : chan[id].name = name)
    IN  First(hit)


\* getVisibleChannels without its filter
VisibleChannelsAll(order, c) == order

\* getChannels().filter(channel => channel.isVisible), for a given channel table
VisibleChannels(order, c) == SelectSeq(order, LAMBDA id : c[id].visible)

GetVisibleChannels == VisibleChannels(channels, chan)

\* ------------------------------------------------- selection (the registry)
\* The values assigned to `selectedChannel`, in order, by each handler.


\* registerListener without its `if (!this.selectedChannel)` guard
RegisterListenerAssignsAlways(sel, id) == <<id>>

\* registerListener: `if (!this.selectedChannel) this.selectedChannel = outputChannel`
RegisterListenerAssigns(sel, id) ==
    IF sel = NoChannel THEN <<id>> ELSE <<>>


\* the visibility listener without its fallback for a hidden selected channel
VisibilityAssignsNoFallback(sel, id, visible, visibleChannels) ==
    IF visible THEN <<id>> ELSE <<>>

\* the visibility listener falling back to the last visible channel
VisibilityAssignsLast(sel, id, visible, visibleChannels) ==
    IF visible THEN <<id>>
    ELSE IF id = sel
         THEN <<IF visibleChannels = <<>> THEN NoChannel
                ELSE visibleChannels[Len(visibleChannels)]>>
    ELSE <<>>

\* the visibility listener selecting a shown channel only when nothing is selected
VisibilityAssignsIfNone(sel, id, visible, visibleChannels) ==
    IF visible THEN (IF sel = NoChannel THEN <<id>> ELSE <<>>)
    ELSE IF id = sel THEN <<First(visibleChannels)>>
    ELSE <<>>

\* the onVisibilityChange listener of registerListener
VisibilityAssigns(sel, id, visible, visibleChannels) ==
    IF visible THEN <<id>>
    ELSE IF id = sel THEN <<First(visibleChannels)>>
    ELSE <<>>


\* the onChannelDeleted listener falling back to the last visible channel
ChannelDeletedAssignsLast(sel, selName, name, visibleChannels) ==
    IF sel # NoChannel /\ selName = name
    THEN <<IF visibleChannels = <<>> THEN NoChannel
           ELSE visibleChannels[Len(visibleChannels)]>>
    ELSE <<>>

\* the onChannelDeleted listener of init
ChannelDeletedAssigns(sel, selName, name, visibleChannels) ==
    IF sel # NoChannel /\ selName = name THEN <<First(visibleChannels)>> ELSE <<>>

\* set selectedChannel: stores the value and fires selected-channel-changed
SelectedAfter(sel, assigns) ==
    IF assigns = <<>> THEN sel ELSE assigns[Len(assigns)]


\* a setter that fires only when the selection changes
SelectedChannelEventsOnChange(c, sel, assigns) ==
    LET prev(i) == IF i = 1 THEN sel ELSE assigns[i - 1]
        changed == SelectSeq([i \in 1..Len(assigns) |-> i],
                             LAMBDA i : assigns[i] # prev(i))
    IN  [k \in 1..Len(changed) |->
            [type |-> "selected",
             name |-> IF assigns[changed[k]] = NoChannel THEN NoName
                      ELSE c[assigns[changed[k]]].name]]

SelectedChannelEvents(c, sel, assigns) ==
    [i \in 1..Len(assigns) |->
        [type |-> "selected",
         name |-> IF assigns[i] = NoChannel THEN NoName ELSE c[assigns[i]].name]]

\* ------------------------------------------------------------ OutputWidget
\* onSelectedChannelChanged up to its `await`: the collection is disposed,
\* which closes the editor widgets pushed onto it; with a selected channel,
\* createEditorWidget asks the editor provider for the editor of the
\* channel's URI and the handler is suspended.
OnSelectedChannelChanged(w, c, sel) ==
    LET closed == [w EXCEPT !.container = SelectSeq(@, LAMBDA e : e.id \notin w.toDispose),
                            !.toDispose = {},
                            !.handled = TRUE]
    IN  IF sel = NoChannel THEN closed
        ELSE [closed EXCEPT !.pending = @ \cup {[id |-> w.next, name |-> c[sel].name]},
                            !.next = @ + 1]

\* The widget's listener on onSelectedChannelChanged, called once for every
\* assignment to selectedChannel, which it reads at that moment.
RECURSIVE SelectedChannelChanged(_, _, _)
SelectedChannelChanged(w, c, assigns) ==
    IF ~w.listening \/ assigns = <<>> THEN w
    ELSE SelectedChannelChanged(OnSelectedChannelChanged(w, c, Head(assigns)), c, Tail(assigns))

\* The members of MessageType that showMessage tests for, and a value that is
\* none of them.
MessageTypes == {"Error", "Warning", "Info", "Log"}
OtherType == "Other"

\* `undefined` as a promise value is <<>>; a value v is <<v>>.
Undefined == <<>>

\* No showMessage call has been made.
NewWindow == [phase |-> "idle", type |-> OtherType, actions |-> <<>>, service |-> "none",
              titles |-> <<>>, chosen |-> Undefined, result |-> Undefined]

\* @postConstruct init of the OutputWidget: it subscribes to the registry.
OutputWidgetInit ==
    /\ ~widget.listening
    /\ widget' = [widget EXCEPT !.listening = TRUE]
    /\ events' = <<>>
    /\ last' = [NoLast EXCEPT !.op = "widgetInit", !.prevSel = selected]
    /\ UNCHANGED <<channels, resources, selected, toDisposeOnChannelDeletion, chan, res,
                   nextId, buffer, listeners, microtasks, preTrim, ops, prefChanges,
                   preference, decorations, storage, window>>

\* The editor provider delivers an editor: the handler resumes after its
\* `await`, adds the new EditorWidget to the container and pushes its closer.
EditorWidgetCreated(p) ==
    /\ p \in widget.pending
    /\ widget' = [widget EXCEPT !.pending = @ \ {p},
                                !.container = Append(@, p),
                                !.toDispose = @ \cup {p.id}]
    /\ events' = <<>>
    /\ last' = [NoLast EXCEPT !.op = "editorWidget", !.name = p.name, !.prevSel = selected]
    /\ UNCHANGED <<channels, resources, selected, toDisposeOnChannelDeletion, chan, res,
                   nextId, buffer, listeners, microtasks, preTrim, ops, prefChanges,
                   preference, decorations, storage, window>>

\* ----------------------------------------------------------- promise jobs
Job(k, ch, text, op, hop) ==
    [k |-> k, ch |-> ch, text |-> text, op |-> op, hop |-> hop, severity |-> Info]


\* a `then` that is lost when the deferred is still pending
ThenReactionsLost(r, rid, job) == r

\* promise.then(job) on the deferred of resource rid: a reaction while the
\* deferred is pending, a job of the queue once it is resolved.
ThenReactions(r, rid, job) ==
    IF r[rid].state = "pending" THEN [r EXCEPT ![rid].reactions = Append(@, job)] ELSE r

ThenMicrotasks(r, mt, rid, job) ==
    IF r[rid].state = "pending" THEN mt ELSE Append(mt, job)

\* several `then` calls in a row on the deferred of resource rid
RECURSIVE ThenAllReactions(_, _, _), ThenAllMicrotasks(_, _, _, _)
ThenAllReactions(r, rid, jobs) ==
    IF jobs = <<>> THEN r
    ELSE ThenAllReactions(ThenReactions(r, rid, Head(jobs)), rid, Tail(jobs))

ThenAllMicrotasks(r, mt, rid, jobs) ==
    IF jobs = <<>> THEN mt
    ELSE ThenAllMicrotasks(r, ThenMicrotasks(r, mt, rid, Head(jobs)), rid, Tail(jobs))

\* ------------------------------------------------------------------- Init
Init ==
    /\ channels = <<>>
    /\ resources = [n \in Names |-> NoChannel]
    /\ selected = NoChannel
    /\ toDisposeOnChannelDeletion = [n \in Names |-> {}]
    /\ chan = [i \in Ids |-> NewChannel]
    /\ res = [i \in Ids |-> NewResource]
    /\ nextId = 1
    /\ buffer = [i \in Ids |-> EmptyText]
    /\ listeners = [i \in Ids |-> <<>>]
    /\ microtasks = <<>>
    /\ events = <<>>
    /\ last = NoLast
    /\ preTrim = EmptyText
    /\ ops = <<>>
    /\ prefChanges = 0
    /\ preference = DefaultMaxLineNumber
    /\ decorations = [i \in Ids |-> <<>>]
    /\ storage = NewStorage
    /\ widget = NewWidget
    /\ window = NewWindow

\* ------------------------------------------------------ locked-channel set
\* A channel whose name is in the set restored at startup is locked from its
\* creation on.
RestoredLocked(name) == name \in storage.restored

\* Startup: the persisted set of locked channel names is loaded, before any
\* channel listener is registered.
Startup(names) ==
    /\ storage.phase = "constructed"
    /\ channels = <<>>
    /\ storage' = [storage EXCEPT !.phase = "started", !.restored = names]
    /\ events' = <<>>
    /\ last' = [NoLast EXCEPT !.op = "startup", !.prevSel = selected]
    /\ UNCHANGED <<channels, resources, selected, toDisposeOnChannelDeletion, chan, res,
                   nextId, buffer, listeners, microtasks, preTrim, ops, prefChanges,
                   preference, decorations, widget, window>>

\* toggleLocked() on any channel object ever returned
ToggleLocked(id) ==
    /\ Created(id)
    /\ chan' = [chan EXCEPT ![id].locked = ~@]
    /\ events' = <<>>
    /\ last' = [NoLast EXCEPT !.op = "toggleLocked", !.id = id, !.prevSel = selected]
    /\ UNCHANGED <<channels, resources, selected, toDisposeOnChannelDeletion, res,
                   nextId, buffer, listeners, microtasks, preTrim, ops, prefChanges,
                   preference, decorations, storage, widget, window>>

\* a shutdown that saves the set restored at startup
LockedChannelNamesRestored(order, c) == storage.restored

\* The names of the channels in `order` whose locked flag is set.
LockedChannelNames(order, c) == { c[order[i]].name : i \in { j \in 1..Len(order) : c[order[j]].locked } }

\* Shutdown: the locked-channel name list is saved, derived by filtering the
\* channels of the registry (getChannels()) by their locked flag.
Shutdown ==
    /\ storage.phase = "started"
    /\ storage' = [storage EXCEPT !.phase = "stopped",
                                  !.saved = LockedChannelNames(channels, chan)]
    /\ events' = <<>>
    /\ last' = [NoLast EXCEPT !.op = "shutdown", !.prevSel = selected]
    /\ UNCHANGED <<channels, resources, selected, toDisposeOnChannelDeletion, chan, res,
                   nextId, buffer, listeners, microtasks, preTrim, ops, prefChanges,
                   preference, decorations, widget, window>>

\* --------------------------------------------------------------- getChannel
\* a collection that drops what is pushed
PushAllDropped(collection, disposables) == collection

\* registerListener: `toDispose.pushAll([...])` on the collection kept for the
\* name, which is the one emptied by an earlier deleteChannel of the name
PushAll(collection, disposables) == collection \cup disposables

\* getChannel(name), with the OutputResource and OutputChannel constructors
\* and the onChannelAdded listener of init (registerListener).
\* The new channel is instance nextId. `then` is the jobs of the calls that
\* the caller makes on the new channel right away, opsThen the calls recorded,
\* lastThen the record of the whole call.
GetChannelNewThen(name, limit, then, opsThen, lastThen) ==
    /\ nextId <= limit
    /\ LET id == nextId
           hasRes == resources[name] # NoChannel
           rid == IF hasRes THEN resources[name] ELSE id
           \* new OutputResource(uri, editorModel): setTimeout in its constructor;
           \* createModelReference(uri) is requested: the deferred is pending
           res1 == IF hasRes THEN res
                   ELSE [res EXCEPT ![rid] = [state |-> "pending", disposed |-> FALSE,
                                             reactions |-> <<>>, timer |-> TRUE]]
           \* new OutputChannel: this.model.then(register the content listener)
           job == Job("register", id, EmptyText, 0, TRUE)
           assigns == RegisterListenerAssigns(selected, id)
           chan1 == [chan EXCEPT ![id] = [name |-> name, resource |-> rid, visible |-> TRUE,
                                         maxLineNumber |-> DefaultMaxLineNumber,
                                         disposed |-> FALSE, visListener |-> TRUE,
                                         disposedPending |-> FALSE,
                                         locked |-> RestoredLocked(name)]]
       IN  /\ resources' = [resources EXCEPT ![name] = rid]
           /\ res' = ThenAllReactions(res1, rid, <<job>> \o then)
           /\ microtasks' = ThenAllMicrotasks(res1, microtasks, rid, <<job>> \o then)
           /\ ops' = opsThen
           /\ chan' = chan1
           /\ channels' = Append(channels, id)
           /\ nextId' = nextId + 1
           /\ selected' = SelectedAfter(selected, assigns)
           /\ toDisposeOnChannelDeletion' =
                  [toDisposeOnChannelDeletion EXCEPT ![name] =
                      PushAll(@, {<<"channel", id>>, <<"visibility", id>>, <<"resource", id>>})]
           /\ events' = <<[type |-> "added", name |-> name]>>
                        \o SelectedChannelEvents(chan1, selected, assigns)
           /\ last' = lastThen
    /\ UNCHANGED <<buffer, listeners, preTrim, prefChanges, preference, decorations, storage, window>>
    /\ widget' = SelectedChannelChanged(widget, [chan EXCEPT ![nextId].name = name],
                                         RegisterListenerAssigns(selected, nextId))

GetChannelNew(name, limit) ==
    GetChannelNewThen(name, limit, <<>>, ops,
                      [NoLast EXCEPT !.op = "getChannel", !.name = name, !.id = nextId,
                                     !.flag = TRUE, !.prevSel = selected])

\* a lookup of an existing channel that fires channel-added again
GetChannelExistingNotifying(name) ==
    /\ last' = [NoLast EXCEPT !.op = "getChannel", !.name = name, !.id = ChannelsGet(name),
                              !.prevSel = selected]
    /\ events' = <<[type |-> "added", name |-> name]>>
    /\ UNCHANGED <<channels, resources, selected, toDisposeOnChannelDeletion, chan, res,
                   nextId, buffer, listeners, microtasks, preTrim, ops, prefChanges,
                   preference, decorations, storage, widget, window>>

GetChannelExisting(name) ==
    /\ last' = [NoLast EXCEPT !.op = "getChannel", !.name = name, !.id = ChannelsGet(name),
                              !.prevSel = selected]
    /\ events' = <<>>
    /\ UNCHANGED <<channels, resources, selected, toDisposeOnChannelDeletion, chan, res,
                   nextId, buffer, listeners, microtasks, preTrim, ops, prefChanges, preference, decorations, storage, widget, window>>


\* getChannel without its lookup of an existing channel
ReturnsExistingNever(name) == FALSE

\* `const existing = this.channels.get(name); if (existing) return existing;`
ReturnsExisting(name) == ChannelsGet(name) # NoChannel

GetChannel(name) ==
    IF ReturnsExisting(name) THEN GetChannelExisting(name) ELSE GetChannelNew(name, MaxInst)

\* ------------------------------------------------------------ deleteChannel
\* toDispose.dispose(): the channel, its visibility subscription and the
\* disposer of its resource. The three effects are independent of each other,
\* so the (reverse) order of disposal does not show.
DisposedChannels(d) == { i \in Ids : <<"channel", i>> \in d }
\* a deletion that leaves the visibility subscription in place
DisposedVisibilityNone(d) == {}

DisposedVisibility(d) == { i \in Ids : <<"visibility", i>> \in d \/ <<"channel", i>> \in d }

\* a deletion whose disposers leave the resources alone
DisposedResourcesNone(d) == {}

\* the resources that the disposers find registered under the channel's uri
DisposedResources(d) ==
    { resources[chan[i].name] : i \in { j \in Ids : <<"resource", j>> \in d } } \ {NoChannel}

\* an emitter that calls the listener registered last first
ChannelDeletedListenersReversed == <<"external", "init">>

\* The listeners of channelDeletedEmitter in the order of their registration:
\* the one that init registers at construction, then one registered by a
\* client of the registry.
ChannelDeletedListeners == <<"init", "external">>

\* What the client's onChannelDeleted listener finds when the emitter calls
\* it: the selection and the selected-channel-changed notifications fired so
\* far, as init's listener has left them if that one ran before.
SeenByListener(order, selBefore, selAfter, notifications) ==
    IF order[1] = "init"
    THEN [selected |-> selAfter, events |-> notifications]
    ELSE [selected |-> selBefore, events |-> <<>>]

DeleteChannelExisting(name) ==
    LET existing == ChannelsGet(name)
        d == toDisposeOnChannelDeletion[name]
        order1 == SeqRemove(channels, existing)
        chan1 == [i \in Ids |->
                    [chan[i] EXCEPT !.disposed = @ \/ i \in DisposedChannels(d),
                                    !.disposedPending = i \in DisposedChannels(d)
                                        /\ res[chan[i].resource].state = "pending",
                                    !.visListener = @ /\ i \notin DisposedVisibility(d)]]
        gone == DisposedResources(d)
        assigns == ChannelDeletedAssigns(selected, NameOf(selected), name,
                                         VisibleChannels(order1, chan1))
    IN  /\ channels' = order1
        /\ chan' = chan1
        /\ res' = [i \in Ids |-> [res[i] EXCEPT !.disposed = @ \/ i \in gone]]
        /\ resources' = [n \in Names |-> IF resources[n] \in gone THEN NoChannel ELSE resources[n]]
        /\ listeners' = [i \in Ids |->
                            SelectSeq(listeners[i],
                                LAMBDA l : ~ \/ (l[1] = "channel" /\ l[2] \in DisposedChannels(d))
                                             \/ (l[1] = "resource" /\ l[2] \in gone))]
        /\ toDisposeOnChannelDeletion' = [toDisposeOnChannelDeletion EXCEPT ![name] = {}]
        /\ selected' = SelectedAfter(selected, assigns)
        /\ widget' = SelectedChannelChanged(widget, chan1, assigns)
        /\ events' = <<[type |-> "deleted", name |-> name]>>
                     \o SelectedChannelEvents(chan1, selected, assigns)
        /\ last' = [NoLast EXCEPT !.op = "deleteChannel", !.name = name, !.id = existing,
                                  !.flag = TRUE, !.prevSel = selected,
                                  !.seen = SeenByListener(ChannelDeletedListeners, selected,
                                               SelectedAfter(selected, assigns),
                                               SelectedChannelEvents(chan1, selected, assigns))]
        /\ UNCHANGED <<nextId, buffer, microtasks, preTrim, ops, prefChanges, preference, decorations, storage, window>>


\* deleteChannel of an unknown name that fires channel-deleted all the same
DeleteChannelUnknownNotifying(name) ==
    /\ last' = [NoLast EXCEPT !.op = "deleteChannel", !.name = name, !.prevSel = selected]
    /\ events' = <<[type |-> "deleted", name |-> name]>>
    /\ UNCHANGED <<channels, resources, selected, toDisposeOnChannelDeletion, chan, res,
                   nextId, buffer, listeners, microtasks, preTrim, ops, prefChanges,
                   preference, decorations, storage, widget, window>>

\* `if (!existing) { console.warn(...); return; }`
DeleteChannelUnknown(name) ==
    /\ last' = [NoLast EXCEPT !.op = "deleteChannel", !.name = name, !.prevSel = selected]
    /\ events' = <<>>
    /\ UNCHANGED <<channels, resources, selected, toDisposeOnChannelDeletion, chan, res,
                   nextId, buffer, listeners, microtasks, preTrim, ops, prefChanges, preference, decorations, storage, widget, window>>

DeleteChannel(name) ==
    IF ChannelsGet(name) = NoChannel THEN DeleteChannelUnknown(name)
    ELSE DeleteChannelExisting(name)

\* ------------------------------------------------------------ setVisibility
\* OutputChannel.setVisibility on any channel object ever returned, with the
\* registry's onVisibilityChange listener when it is still subscribed.
SetVisibility(id, visible) ==
    /\ Created(id)
    /\ LET chan1 == [chan EXCEPT ![id].visible = visible]
           assigns == IF chan[id].visListener
                      THEN VisibilityAssigns(selected, id, visible,
                                             VisibleChannels(channels, chan1))
                      ELSE <<>>
       IN  /\ chan' = chan1
           /\ selected' = SelectedAfter(selected, assigns)
           /\ widget' = SelectedChannelChanged(widget, chan1, assigns)
           /\ events' = SelectedChannelEvents(chan1, selected, assigns)
           /\ last' = [NoLast EXCEPT !.op = "setVisibility", !.name = chan[id].name,
                                     !.id = id, !.flag = visible, !.prevSel = selected]
    /\ UNCHANGED <<channels, resources, toDisposeOnChannelDeletion, res, nextId, buffer,
                   listeners, microtasks, preTrim, ops, prefChanges, preference, decorations, storage, window>>

\* ------------------------------------------------------ set selectedChannel
\* The public setter, called with a registered channel or with undefined.
SetSelectedChannel(id) ==
    /\ id \in Range(channels) \cup {NoChannel}
    /\ selected' = SelectedAfter(selected, <<id>>)
    /\ widget' = SelectedChannelChanged(widget, chan, <<id>>)
    /\ events' = SelectedChannelEvents(chan, selected, <<id>>)
    /\ last' = [NoLast EXCEPT !.op = "setSelectedChannel", !.name = NameOf(id), !.id = id,
                              !.prevSel = selected]
    /\ UNCHANGED <<channels, resources, toDisposeOnChannelDeletion, chan, res, nextId,
                   buffer, listeners, microtasks, preTrim, ops, prefChanges, preference, decorations, storage, window>>

\* ------------------------------------------------------------------ resolve
\* an OutputUri.is that accepts every scheme
OutputUriIsAny(uri) == TRUE

\* OutputUri.is(uri): `uri.scheme === SCHEME`
OutputUriIs(uri) == uri.scheme = SCHEME

\* a lookup that finds the resource of the first instance when none is registered
ResourcesGetStale(uri) ==
    IF resources[uri.name] = NoChannel THEN 1 ELSE resources[uri.name]

\* a lookup that finds nothing
ResourcesGetNone(uri) == NoChannel

\* `this.resources.get(uri.toString())`
ResourcesGet(uri) == resources[uri.name]

\* resolve(uri): the resource registered for the URI, or one of two errors
ResolveOutcome(uri) ==
    IF ~OutputUriIs(uri) THEN [id |-> NoChannel, error |-> "scheme"]
    ELSE IF ResourcesGet(uri) = NoChannel THEN [id |-> NoChannel, error |-> "not-found"]
    ELSE [id |-> ResourcesGet(uri), error |-> "none"]

Resolve(uri) ==
    /\ last' = [NoLast EXCEPT !.op = "resolve", !.name = uri.name, !.scheme = uri.scheme,
                              !.id = ResolveOutcome(uri).id,
                              !.error = ResolveOutcome(uri).error,
                              !.flag = ResolveOutcome(uri).error = "none",
                              !.prevSel = selected]
    /\ events' = <<>>
    /\ UNCHANGED <<channels, resources, selected, toDisposeOnChannelDeletion, chan, res,
                   nextId, buffer, listeners, microtasks, preTrim, ops, prefChanges,
                   preference, decorations, storage, widget, window>>

\* --------------------------------------------------------- the text model
\* textModel.getLineFirstNonWhitespaceColumn(line): 0 for a line that is empty
\* or holds only whitespace
LineFirstNonWhitespaceColumn(line) ==
    LET cols == { i \in 1..Len(line) : line[i] # " " }
    IN  IF cols = {} THEN 0 ELSE CHOOSE i \in cols : \A j \in cols : i <= j

\* append(): the text is inserted at (lastLine, lastLineMaxColumn)
AppendText(buf, text) ==
    SubSeq(buf, 1, Len(buf) - 1) \o <<buf[Len(buf)] \o text[1]>> \o Tail(text)


\* the number of lines to remove without its `+ 1`
LinesToRemoveShort(buf, max) == Len(buf) - max

\* `textModel.getLineCount() - this.maxLineNumber + 1`
LinesToRemove(buf, max) == Len(buf) - max + 1

\* a handler that removes one line with each edit
TrimEditOneLine(buf, max) == IF Len(buf) > max THEN Tail(buf) ELSE buf

\* The edit of handleDidChangeContent: the range (1, 1, linesToRemove, endColumn)
\* is deleted; applyEdits clamps a column below 1 to 1.
TrimEdit(buf, max) ==
    LET r == LinesToRemove(buf, max)
    IN  IF r <= 0 \/ r > Len(buf) THEN buf
        ELSE LET endColumn == LineFirstNonWhitespaceColumn(buf[r])
                 c == IF endColumn < 1 THEN 1 ELSE endColumn
             IN  <<SubSeq(buf[r], c, Len(buf[r]))>> \o SubSeq(buf, r + 1, Len(buf))

\* handleDidChangeContent of a channel with bound max, and the
\* onDidChangeContent event of the text model: the trimming edit, when it
\* changes the content, fires the event again, to every listener in lst.
RECURSIVE HandleDidChangeContent(_, _, _), FireDidChangeContent(_, _, _)
HandleDidChangeContent(buf, max, lst) ==
    LET b2 == TrimEdit(buf, max)
    IN  IF b2 = buf THEN buf ELSE FireDidChangeContent(b2, lst, lst)

FireDidChangeContent(buf, todo, lst) ==
    IF todo = <<>> THEN buf
    ELSE LET l == Head(todo)
             b2 == IF l[1] = "channel"
                   THEN HandleDidChangeContent(buf, chan[l[2]].maxLineNumber, lst)
                   ELSE buf
         IN  FireDidChangeContent(b2, Tail(todo), lst)

\* The number of trimming edits that handleDidChangeContent and its
\* re-entries apply to a content, followed for at most `fuel` re-entries.
RECURSIVE Reentries(_, _, _)
Reentries(buf, max, fuel) ==
    IF fuel = 0 \/ TrimEdit(buf, max) = buf THEN 0
    ELSE 1 + Reentries(TrimEdit(buf, max), max, fuel - 1)

\* The channels whose contentChangeEmitter fired, in order, during
\* handleDidChangeContent of channel ch and during the onDidChangeContent
\* event of the text model; a disposed channel's emitter fires to nobody.
RECURSIVE HandleNotified(_, _, _), FireNotified(_, _, _)
HandleNotified(buf, ch, lst) ==
    LET b2 == TrimEdit(buf, chan[ch].maxLineNumber)
    IN  (IF chan[ch].disposed THEN <<>> ELSE <<ch>>)
        \o (IF b2 = buf THEN <<>> ELSE FireNotified(b2, lst, lst))

FireNotified(buf, todo, lst) ==
    IF todo = <<>> THEN <<>>
    ELSE LET l == Head(todo)
         IN  IF l[1] = "channel"
             THEN HandleNotified(buf, l[2], lst)
                  \o FireNotified(HandleDidChangeContent(buf, chan[l[2]].maxLineNumber, lst),
                                  Tail(todo), lst)
             ELSE FireNotified(buf, Tail(todo), lst)

\* The resources whose onDidChangeContentsEmitter fired, in order, during the
\* onDidChangeContent event of the text model; the emitter of a disposed
\* resource fires to nobody.
RECURSIVE FireResourceNotified(_, _, _)
FireResourceNotified(buf, todo, lst) ==
    IF todo = <<>> THEN <<>>
    ELSE LET l == Head(todo)
         IN  IF l[1] = "channel"
             THEN LET b2 == TrimEdit(buf, chan[l[2]].maxLineNumber)
                  IN  (IF b2 = buf THEN <<>> ELSE FireResourceNotified(b2, lst, lst))
                      \o FireResourceNotified(
                             HandleDidChangeContent(buf, chan[l[2]].maxLineNumber, lst),
                             Tail(todo), lst)
             ELSE (IF res[l[2]].disposed THEN <<>> ELSE <<l[2]>>)
                  \o FireResourceNotified(buf, Tail(todo), lst)

\* ------------------------------------------------- append, appendLine, clear
\* Each is `this.model.then(callback)`: the model getter chains a new promise
\* on the deferred (hop), and the callback is the reaction of that promise.
\* The record of a call in the history.
OpRecord(id, k, text, early) ==
    [ch |-> id, k |-> k, early |-> early, applied |-> 0, text |-> text]

ChannelOpEffect(id, k, text, severity, limit) ==
    /\ Created(id)
    /\ Len(ops) < limit
    /\ LET rid == chan[id].resource
           job == [Job(k, id, text, Len(ops) + 1, TRUE) EXCEPT !.severity = severity]
       IN  /\ res' = ThenReactions(res, rid, job)
           /\ microtasks' = ThenMicrotasks(res, microtasks, rid, job)
           /\ ops' = Append(ops, OpRecord(id, k, text, res[rid].state = "pending"))
    /\ events' = <<>>
    /\ UNCHANGED <<channels, resources, selected, toDisposeOnChannelDeletion, chan, nextId,
                   buffer, listeners, preTrim, prefChanges, preference, decorations, storage, widget, window>>

ChannelOpSeverity(id, k, text, severity, limit) ==
    /\ ChannelOpEffect(id, k, text, severity, limit)
    /\ last' = [NoLast EXCEPT !.op = "call", !.prevSel = selected]

\* The severity defaults to OutputChannelSeverity.Info.
ChannelOp(id, k, text) == ChannelOpSeverity(id, k, text, Info, MaxOps)

AppendCall(id, text) == ChannelOp(id, "append", text)

\* append(text, severity)
AppendSeverityCall(id, text, severity) ==
    ChannelOpSeverity(id, "append", text, severity, MaxOps)

\* ------------------------------------------------------------- registerCommands
\* The payload of a command: a channel name, possibly the empty string, and
\* for append and appendLine a text, possibly the empty string.
CommandNames == AsyncNames \cup {""}
CommandTexts == AsyncTexts \cup {EmptyText}
CommandLines == AsyncLines \cup {<<>>}

\* handlers that look at the name only
CommandGuardNameOnly(k, name, text) == name # ""

\* `if (name && text)` of append and appendLine, `if (name)` of clear
CommandGuard(k, name, text) == name # "" /\ (k = "clear" \/ text # EmptyText)

\* execute of APPEND, APPEND_LINE and CLEAR: this.getChannel(name).<k>(text)
ExecuteCommand(k, name, text) ==
    LET record(id, created) ==
            [NoLast EXCEPT !.op = "command", !.command = k, !.name = name, !.text = text,
                           !.id = id, !.flag = created, !.prevSel = selected]
        early == IF resources[name] # NoChannel
                 THEN res[resources[name]].state = "pending" ELSE TRUE
        then == <<Job(k, nextId, text, Len(ops) + 1, TRUE)>>
        opsThen == Append(ops, OpRecord(nextId, k, text, early))
        lastThen == record(nextId, TRUE)
    IN  IF ~CommandGuard(k, name, text)
        THEN /\ last' = record(NoChannel, FALSE)
             /\ events' = <<>>
             /\ UNCHANGED <<channels, resources, selected, toDisposeOnChannelDeletion,
                            chan, res, nextId, buffer, listeners, microtasks, preTrim,
                            ops, prefChanges, preference, decorations, storage, widget, window>>
        ELSE IF ReturnsExisting(name)
        THEN /\ ChannelOpEffect(ChannelsGet(name), k, text, Info, MaxOps)
             /\ last' = record(ChannelsGet(name), FALSE)
        ELSE /\ Len(ops) < MaxOps
             /\ GetChannelNewThen(name, MaxInst, then, opsThen, lastThen)

CommandAppend(name, text) == ExecuteCommand("append", name, text)

CommandAppendLine(name, line) == ExecuteCommand("appendLine", name, <<line>>)

CommandClear(name) == ExecuteCommand("clear", name, EmptyText)

\* The record of a command whose handler has an empty body.
CommandRecord(k, name) ==
    [NoLast EXCEPT !.op = "command", !.command = k, !.name = name, !.prevSel = selected]

\* a show command that announces the channel as selected
CommandShowAnnouncing(name, preserveFocus) ==
    /\ last' = CommandRecord("show", name)
    /\ events' = <<[type |-> "selected", name |-> name]>>
    /\ UNCHANGED <<channels, resources, selected, toDisposeOnChannelDeletion,
                   chan, res, nextId, buffer, listeners, microtasks, preTrim,
                   ops, prefChanges, preference, decorations, storage, widget, window>>

\* execute of SHOW: `if (name) { }`, the body is a comment
CommandShow(name, preserveFocus) ==
    /\ last' = CommandRecord("show", name)
    /\ events' = <<>>
    /\ UNCHANGED <<channels, resources, selected, toDisposeOnChannelDeletion,
                   chan, res, nextId, buffer, listeners, microtasks, preTrim,
                   ops, prefChanges, preference, decorations, storage, widget, window>>

\* execute of HIDE: `if (name) { }`, the body is a comment
CommandHide(name) ==
    /\ last' = CommandRecord("hide", name)
    /\ events' = <<>>
    /\ UNCHANGED <<channels, resources, selected, toDisposeOnChannelDeletion,
                   chan, res, nextId, buffer, listeners, microtasks, preTrim,
                   ops, prefChanges, preference, decorations, storage, widget, window>>

\* execute of DISPOSE: `if (name) { this.deleteChannel(name); }`
CommandDispose(name) ==
    IF name # "" THEN DeleteChannel(name)
    ELSE /\ last' = [NoLast EXCEPT !.op = "command", !.command = "dispose", !.name = name,
                                   !.prevSel = selected]
         /\ events' = <<>>
         /\ UNCHANGED <<channels, resources, selected, toDisposeOnChannelDeletion,
                        chan, res, nextId, buffer, listeners, microtasks, preTrim,
                        ops, prefChanges, preference, decorations, storage, widget, window>>

\* appendLine(line), called when the calls before it have been applied
AppendLineNext(id, line, limit) ==
    /\ Created(id)
    /\ microtasks = <<>>
    /\ res[chan[id].resource].state = "resolved"
    /\ ChannelOpSeverity(id, "appendLine", <<line>>, Info, limit)

AppendLineCall(id, line) == ChannelOp(id, "appendLine", <<line>>)

ClearCall(id) == ChannelOp(id, "clear", EmptyText)

\* ------------------------------------------------------------ OutputResource
\* textEditorModel.getValue(): the lines of the buffer
GetValue(buf) == buf

\* readContents(): `const model = await this.model.promise;` suspends the call
\* until the deferred is resolved, and for one job when it already is.
ReadContents(rid) ==
    /\ rid \in Ids
    /\ res[rid].state # "none"
    /\ Len(ops) < MaxOps
    /\ LET job == Job("read", rid, EmptyText, Len(ops) + 1, FALSE)
       IN  /\ res' = ThenReactions(res, rid, job)
           /\ microtasks' = ThenMicrotasks(res, microtasks, rid, job)
           /\ ops' = Append(ops, OpRecord(rid, "read", EmptyText, res[rid].state = "pending"))
    /\ events' = <<>>
    /\ last' = [NoLast EXCEPT !.op = "readContents", !.id = rid, !.prevSel = selected]
    /\ UNCHANGED <<channels, resources, selected, toDisposeOnChannelDeletion, chan, nextId,
                   buffer, listeners, preTrim, prefChanges, preference, decorations, storage, widget, window>>

\* ------------------------------------------------------ preference changes
\* The onPreferenceChanged listener of every channel that is not disposed, in
\* the order of their creation; the maxLineNumber setter is
\* `this.model.then(textModel => this.handleDidChangeContent(textModel))`.
\* The new value of an event whose newValue is absent: `undefined` is falsy
\* as 0 is, and the handler tells them apart nowhere.
NoValue == 0

\* a handler that takes the new value as it comes
MaxLineNumberOfAsGiven(newValue) == newValue

\* `newValue ? newValue : OutputConfigSchema.properties[...].default`
MaxLineNumberOf(newValue) == IF newValue # 0 THEN newValue ELSE SchemaDefault

\* `if (maxLineNumber && preferenceName === 'output.maxChannelHistory')`
PrefApplies(preferenceName, newValue) ==
    MaxLineNumberOf(newValue) # 0 /\ preferenceName = "output.maxChannelHistory"

LiveChannels == SelectSeq([i \in 1..(nextId - 1) |-> i], LAMBDA i : ~chan[i].disposed)

TrimJobs(ids) == [i \in 1..Len(ids) |-> Job("trim", ids[i], EmptyText, 0, TRUE)]

PreferenceChanged(preferenceName, newValue) ==
    /\ prefChanges < MaxPrefChanges
    /\ prefChanges' = prefChanges + 1
    /\ LET hit == IF PrefApplies(preferenceName, newValue) THEN LiveChannels ELSE <<>>
       IN  /\ chan' = [i \in Ids |-> IF i \in Range(hit)
                                     THEN [chan[i] EXCEPT !.maxLineNumber =
                                                              MaxLineNumberOf(newValue)]
                                     ELSE chan[i]]
           /\ res' = [r \in Ids |->
                        IF res[r].state = "pending"
                        THEN [res[r] EXCEPT !.reactions = @ \o TrimJobs(
                                  SelectSeq(hit, LAMBDA i : chan[i].resource = r))]
                        ELSE res[r]]
           /\ microtasks' = microtasks \o TrimJobs(
                  SelectSeq(hit, LAMBDA i : res[chan[i].resource].state = "resolved"))
    /\ events' = <<>>
    /\ last' = [NoLast EXCEPT !.op = "preferenceChanged", !.prevSel = selected,
                              !.name = preferenceName, !.value = newValue,
                              !.flag = PrefApplies(preferenceName, newValue)]
    /\ preference' = IF PrefApplies(preferenceName, newValue)
                     THEN MaxLineNumberOf(newValue) ELSE preference
    /\ UNCHANGED <<channels, resources, selected, toDisposeOnChannelDeletion, nextId,
                   buffer, listeners, preTrim, ops, decorations, storage, widget, window>>

\* ------------------------------------------------------------ environment
\* The text-model service resolves the deferred of a resource: the reactions
\* registered on the deferred become jobs, in the order of registration.
ResolveModel(rid) ==
    /\ rid \in Ids
    /\ res[rid].state = "pending"
    /\ res' = [res EXCEPT ![rid].state = "resolved", ![rid].reactions = <<>>]
    /\ microtasks' = microtasks \o res[rid].reactions
    /\ events' = <<>>
    /\ last' = [NoLast EXCEPT !.op = "resolveModel", !.prevSel = selected]
    /\ UNCHANGED <<channels, resources, selected, toDisposeOnChannelDeletion, chan, nextId,
                   buffer, listeners, preTrim, ops, prefChanges, preference, decorations, storage, widget, window>>

\* The setTimeout callback of the OutputResource constructor:
\* `this.model.promise.then(... textEditorModel.onDidChangeContent(...))`
RunTimer(rid) ==
    /\ rid \in Ids
    /\ res[rid].timer
    /\ LET job == Job("resourceListen", rid, EmptyText, 0, FALSE)
           res1 == [res EXCEPT ![rid].timer = FALSE]
       IN  /\ res' = ThenReactions(res1, rid, job)
           /\ microtasks' = ThenMicrotasks(res1, microtasks, rid, job)
    /\ events' = <<>>
    /\ last' = [NoLast EXCEPT !.op = "timer", !.prevSel = selected]
    /\ UNCHANGED <<channels, resources, selected, toDisposeOnChannelDeletion, chan, nextId,
                   buffer, listeners, preTrim, ops, prefChanges, preference, decorations, storage, widget, window>>

\* ------------------------------------------------------- the promise jobs

\* an append that edits the text model only when the severity is Info
JobEditInfoOnly(j, buf) ==
    CASE j.k = "append" /\ j.severity = Info -> AppendText(buf, j.text)
      [] j.k = "clear"                        -> EmptyText
      [] OTHER                                -> buf

\* The content of the text model after the job's own edit, before any listener runs.
JobEdit(j, buf) ==
    CASE j.k = "append" -> AppendText(buf, j.text)
      [] j.k = "clear"  -> EmptyText
      [] OTHER          -> buf

\* Whether the job's edit fires onDidChangeContent: setValue always does, an
\* insertion of no text does not.
JobFires(j) ==
    \/ j.k = "clear"
    \/ j.k = "append" /\ j.text # EmptyText

\* The content after the listeners have run.
JobResult(j, buf, lst) ==
    CASE JobFires(j)  -> FireDidChangeContent(JobEdit(j, buf), lst, lst)
      [] j.k = "trim" -> HandleDidChangeContent(buf, chan[j.ch].maxLineNumber, lst)
      [] OTHER        -> buf

\* The contentChangeEmitter notifications of the job.
JobNotified(j, buf, lst) ==
    CASE JobFires(j)  -> FireNotified(JobEdit(j, buf), lst, lst)
      [] j.k = "trim" -> HandleNotified(buf, j.ch, lst)
      [] OTHER        -> <<>>

\* The onDidChangeContentsEmitter notifications of the job.
JobResourceNotified(j, buf, lst) ==
    CASE JobFires(j)  -> FireResourceNotified(JobEdit(j, buf), lst, lst)
      [] j.k = "trim" -> LET b2 == TrimEdit(buf, chan[j.ch].maxLineNumber)
                         IN  IF b2 = buf THEN <<>> ELSE FireResourceNotified(b2, lst, lst)
      [] OTHER        -> <<>>

\* append with a severity other than Info: deltaDecorations adds one
\* decoration with the inline class of the severity.
JobDecorations(j) ==
    IF j.k = "append" /\ j.severity # Info
    THEN <<IF j.severity = Error THEN "theia-output-error" ELSE "theia-output-warning">>
    ELSE <<>>

\* appendLine's callback: `eol = !textModel.getValue() ? '' : textModel.getEOL()`,
\* then `this.append(eol + line)`
AppendLineText(buf, line) ==
    IF buf = EmptyText THEN <<line>> ELSE << <<>>, line >>


\* jobs that register no listener on the text model
JobListenerNone(j) == <<>>

\* The listener that a job registers on the text model.
JobListener(j) ==
    CASE j.k = "register"       -> << <<"channel", j.ch>> >>
      [] j.k = "resourceListen" -> << <<"resource", j.ch>> >>
      [] OTHER                  -> <<>>

RunMicrotask ==
    /\ microtasks # <<>>
    /\ LET j == Head(microtasks)
           rest == Tail(microtasks)
           rid == IF j.k \in {"resourceListen", "read"} THEN j.ch ELSE chan[j.ch].resource
           after == JobEdit(j, buffer[rid])
           result == JobResult(j, buffer[rid], listeners[rid])
       IN  /\ microtasks' =
                 IF j.hop THEN Append(rest, [j EXCEPT !.hop = FALSE])
                 ELSE IF j.k = "appendLine"
                      THEN Append(rest, [Job("append", j.ch,
                                             AppendLineText(buffer[rid], j.text[1]),
                                             j.op, TRUE) EXCEPT !.severity = j.severity])
                      ELSE rest
           /\ buffer' = IF j.hop THEN buffer ELSE [buffer EXCEPT ![rid] = result]
           /\ preTrim' = IF j.hop THEN preTrim ELSE after
           /\ listeners' = IF j.hop THEN listeners
                           ELSE [listeners EXCEPT ![rid] = @ \o JobListener(j)]
           /\ ops' = IF ~j.hop /\ j.k \in {"append", "clear"} /\ j.op # 0
                     THEN [ops EXCEPT ![j.op].applied = @ + 1]
                     ELSE IF j.k = "read"
                     THEN [ops EXCEPT ![j.op].applied = @ + 1,
                                      ![j.op].text = GetValue(buffer[rid])]
                     ELSE ops
           /\ last' = [NoLast EXCEPT !.op = IF j.hop THEN "hop" ELSE "job", !.name = j.k,
                                     !.id = j.ch, !.prevSel = selected,
                                     !.flag = ~j.hop /\ (JobFires(j) \/ result # buffer[rid]),
                                     !.removed = IF j.hop THEN 0 ELSE Len(after) - Len(result),
                                     !.notified = IF j.hop THEN <<>>
                                                  ELSE JobNotified(j, buffer[rid], listeners[rid]),
                                     !.text = IF j.k = "read" THEN GetValue(buffer[rid])
                                              ELSE EmptyText,
                                     !.resourceNotified =
                                         IF j.hop THEN <<>>
                                         ELSE JobResourceNotified(j, buffer[rid], listeners[rid])]
           /\ decorations' = IF j.hop THEN decorations
                             ELSE [decorations EXCEPT ![rid] = @ \o JobDecorations(j)]
    /\ events' = <<>>
    /\ UNCHANGED <<channels, resources, selected, toDisposeOnChannelDeletion, chan, res,
                   nextId, prefChanges, preference, storage, widget, window>>

\* ---------------------------------------------------------- specifications
\* getChannel, deleteChannel and setVisibility calls only.
NextCalls ==
    \/ \E n \in Names : GetChannel(n)
    \/ \E n \in Names : DeleteChannel(n)
    \/ \E id \in Ids, v \in BOOLEAN : SetVisibility(id, v)

SpecCalls == Init /\ [][NextCalls]_vars

\* The registry's whole synchronous surface.
Next ==
    \/ \E n \in Names : GetChannel(n)
    \/ \E n \in Names : DeleteChannel(n)
    \/ \E id \in Ids, v \in BOOLEAN : SetVisibility(id, v)
    \/ \E id \in Ids \cup {NoChannel} : SetSelectedChannel(id)

Spec == Init /\ [][Next]_vars

\* The registry as the resolver of output: URIs.
NextResolve ==
    \/ \E n \in Names : GetChannel(n)
    \/ \E n \in Names : DeleteChannel(n)
    \/ \E id \in Ids, v \in BOOLEAN : SetVisibility(id, v)
    \/ \E uri \in Uris : Resolve(uri)

SpecResolve == Init /\ [][NextResolve]_vars

\* No channel of this name was created yet.
Fresh(name) == \A i \in Ids : Created(i) => chan[i].name # name

\* The life of one channel, from its creation to after its deletion, with
\* its text model and the promise jobs: channel operations racing with the
\* creation of the text model and with the deletion.
NextAsync ==
    \/ \E n \in AsyncNames : (Fresh(n) \/ ReturnsExisting(n)) /\ GetChannel(n)
    \/ \E n \in AsyncNames : DeleteChannel(n)
    \/ \E id \in Ids, t \in AsyncTexts : AppendCall(id, t)
    \/ \E id \in Ids, l \in AsyncLines : AppendLineCall(id, l)
    \/ \E id \in Ids : ClearCall(id)
    \/ \E rid \in Ids : ResolveModel(rid)
    \/ \E rid \in Ids : RunTimer(rid)
    \/ RunMicrotask

SpecAsync == Init /\ [][NextAsync]_vars

\* The event loop runs every job of the promise job queue.
FairSpecAsync == SpecAsync /\ WF_vars(RunMicrotask)

\* One channel with its text model, the promise jobs and the
\* maximum-line-count preference: the scrollback bound.
NextTrim ==
    \/ \E n \in AsyncNames : GetChannel(n)
    \/ \E id \in Ids, t \in Texts : Len(ops) < MaxTrimOps /\ AppendCall(id, t)
    \/ \E id \in Ids, l \in Lines : Len(ops) < MaxTrimOps /\ AppendLineCall(id, l)
    \/ \E id \in Ids : Len(ops) < MaxTrimOps /\ ClearCall(id)
    \/ \E p \in PrefNames, v \in PrefValues : PreferenceChanged(p, v)
    \/ \E rid \in Ids : ResolveModel(rid)
    \/ RunMicrotask

SpecTrim == Init /\ [][NextTrim]_vars

\* One channel and appends of every severity.
\* A session of the application: startup, channels created, deleted and
\* locked or unlocked, shutdown.
NextLock ==
    \/ \E names \in SUBSET LockNames : Startup(names)
    \/ \E n \in LockNames : storage.phase = "started" /\ GetChannel(n)
    \/ \E n \in LockNames : storage.phase = "started" /\ DeleteChannel(n)
    \/ \E id \in Ids : storage.phase = "started" /\ ToggleLocked(id)
    \/ Shutdown

SpecLock == Init /\ [][NextLock]_vars

\* The resolver while text models are being created.
NextResolveAsync ==
    \/ \E n \in AsyncNames : GetChannel(n)
    \/ \E n \in AsyncNames : DeleteChannel(n)
    \/ \E uri \in Uris : Resolve(uri)
    \/ \E rid \in Ids : ResolveModel(rid)
    \/ RunMicrotask

SpecResolveAsync == Init /\ [][NextResolveAsync]_vars

\* ------------------------------------------------------------- WindowImpl
\* Titles of MessageActionItems; the empty string is a title as any other.
ActionTitles == {"", "Retry", "Open"}
\* Action objects: two objects with one title differ in `item`.
ActionItems == {[title |-> t, item |-> i] : t \in ActionTitles, i \in 1..MaxItems}

RECURSIVE SeqsUpTo(_, _)
SeqsUpTo(S, n) ==
    IF n = 0 THEN {<<>>}
    ELSE LET shorter == SeqsUpTo(S, n - 1)
         IN  shorter \cup {Append(q, x) : q \in shorter, x \in S}

\* `new Map(actions.map(action => [action.title, action]))`: of two actions
\* with one title the later one stays.
OriginalActions(actions) ==
    [t \in {actions[i].title : i \in 1..Len(actions)} |->
        actions[CHOOSE i \in 1..Len(actions) :
                   /\ actions[i].title = t
                   /\ \A j \in 1..Len(actions) : actions[j].title = t => j <= i]]

\* `actions.map(action => action.title)`
ActionTitlesOf(actions) == [i \in 1..Len(actions) |-> actions[i].title]

\* mapActionType: `if (!!result) return originalActions.get(result)`, else
\* undefined; the empty string is falsy, and Map.get of a missing key is
\* undefined.
MapActionType(actions, result) ==
    IF result # Undefined /\ result[1] # ""
    THEN IF result[1] \in DOMAIN OriginalActions(actions)
         THEN <<OriginalActions(actions)[result[1]]>>
         ELSE Undefined
    ELSE Undefined

\* The method of the message service showMessage calls for a message type.
ServiceMethod(type) ==
    CASE type = "Error"   -> "error"
      [] type = "Warning" -> "warn"
      [] type = "Info"    -> "info"
      [] type = "Log"     -> "log"
      [] OTHER            -> "none"

\* showMessage(type, message, ...actions) up to its return: for one of the
\* four message types the promise of the message service with mapActionType
\* chained, otherwise Promise.resolve(undefined).
ShowMessage(type, actions) ==
    /\ window.phase = "idle"
    /\ window' = [NewWindow EXCEPT
                     !.phase = IF type \in MessageTypes THEN "asked" ELSE "returned",
                     !.type = type, !.actions = actions,
                     !.service = ServiceMethod(type),
                     !.titles = IF type \in MessageTypes THEN ActionTitlesOf(actions)
                                ELSE <<>>]
    /\ UNCHANGED <<channels, resources, selected, toDisposeOnChannelDeletion, chan, res,
                   nextId, buffer, listeners, microtasks, events, last, preTrim, ops,
                   prefChanges, preference, decorations, storage, widget>>

\* The promise of the message service resolves with the title chosen or
\* with undefined, and mapActionType maps it.
MessageServiceResolves(result) ==
    /\ window.phase = "asked"
    /\ window' = [window EXCEPT !.phase = "returned", !.chosen = result,
                                !.result = MapActionType(window.actions, result)]
    /\ UNCHANGED <<channels, resources, selected, toDisposeOnChannelDeletion, chan, res,
                   nextId, buffer, listeners, microtasks, events, last, preTrim, ops,
                   prefChanges, preference, decorations, storage, widget>>

\* One showMessage call; the message service answers with one of the titles
\* it was given or with undefined.
NextWindow ==
    \/ \E type \in MessageTypes \cup {OtherType}, actions \in SeqsUpTo(ActionItems, MaxActions) :
          ShowMessage(type, actions)
    \/ \E result \in {<<t>> : t \in Range(window.titles)} \cup {Undefined} :
          MessageServiceResolves(result)

SpecWindow == Init /\ [][NextWindow]_vars

\* The OutputWidget following the selection of the registry.
NextWidget ==
    \/ OutputWidgetInit
    \/ \E n \in LockNames : widget.next <= MaxWidgets /\ GetChannel(n)
    \/ \E n \in LockNames : widget.next <= MaxWidgets /\ DeleteChannel(n)
    \/ \E id \in Ids \cup {NoChannel} : widget.next <= MaxWidgets /\ SetSelectedChannel(id)
    \/ \E p \in widget.pending : EditorWidgetCreated(p)

SpecWidget == Init /\ [][NextWidget]_vars

\* One channel, its appends, and the reads and the listener of its resource.
NextResource ==
    \/ \E n \in AsyncNames : GetChannel(n)
    \/ \E id \in Ids, t \in AsyncTexts : AppendCall(id, t)
    \/ \E rid \in Ids : ReadContents(rid)
    \/ \E rid \in Ids : ResolveModel(rid)
    \/ \E rid \in Ids : RunTimer(rid)
    \/ RunMicrotask

SpecResource == Init /\ [][NextResource]_vars

\* Preference-changed events of every kind, for one channel with content.
NextPreference ==
    \/ \E n \in AsyncNames : GetChannel(n)
    \/ \E id \in Ids, t \in Texts : Len(ops) < MaxTrimOps /\ AppendCall(id, t)
    \/ \E p \in PrefNames, v \in PrefValues \cup {NoValue} : PreferenceChanged(p, v)
    \/ \E rid \in Ids : ResolveModel(rid)
    \/ RunMicrotask

SpecPreference == Init /\ [][NextPreference]_vars

\* The commands, for one life of one channel.
NextCommands ==
    \/ \E n \in CommandNames, t \in CommandTexts :
          (Fresh(n) \/ ReturnsExisting(n)) /\ CommandAppend(n, t)
    \/ \E n \in CommandNames, l \in CommandLines :
          (Fresh(n) \/ ReturnsExisting(n)) /\ CommandAppendLine(n, l)
    \/ \E n \in CommandNames : (Fresh(n) \/ ReturnsExisting(n)) /\ CommandClear(n)
    \/ \E n \in CommandNames : CommandDispose(n)
    \/ \E n \in CommandNames, preserveFocus \in BOOLEAN : CommandShow(n, preserveFocus)
    \/ \E n \in CommandNames : CommandHide(n)
    \/ \E rid \in Ids : ResolveModel(rid)
    \/ RunMicrotask

SpecCommands == Init /\ [][NextCommands]_vars

NextSeverity ==
    \/ \E n \in AsyncNames : GetChannel(n)
    \/ \E id \in Ids, t \in Texts, severity \in {Error, Warning, Info} :
          AppendSeverityCall(id, t, severity)
    \/ \E rid \in Ids : ResolveModel(rid)
    \/ RunMicrotask

SpecSeverity == Init /\ [][NextSeverity]_vars

\* One channel that is configured first and then appended to line by line,
\* every appendLine being applied before the next one is called.
NextLines ==
    \/ \E n \in AsyncNames : GetChannel(n)
    \/ \E v \in PrefValues :
          ops = <<>> /\ PreferenceChanged("output.maxChannelHistory", v)
    \/ \E id \in Ids : AppendLineNext(id, LineNo(Len(ops) + 1), MaxSeqOps)
    \/ \E rid \in Ids : ResolveModel(rid)
    \/ RunMicrotask

SpecLines == Init /\ [][NextLines]_vars

\* ================================================================== claims
\* Helpers of the claims (stated from the claims, not from the code).
EventsOfType(t) == SelectSeq(events, LAMBDA e : e.type = t)

\* The first channel, in insertion order, that is registered and visible.
FirstVisibleRegistered ==
    LET idx == { i \in 1..Len(channels) : chan[channels[i]].visible }
    IN  IF idx = {} THEN NoChannel
        ELSE channels[CHOOSE i \in idx : \A j \in idx : i <= j]

Registered(id) == \E i \in 1..Len(channels) : channels[i] = id

EntriesFor(n) == Cardinality({ i \in 1..Len(channels) : chan[channels[i]].name = n })

\* C1: after any sequence of getChannel, deleteChannel and setVisibility calls
\* the selected channel is absent, or is in the channel map and visible.
C1_SelectedRegisteredVisible ==
    selected = NoChannel \/ (Registered(selected) /\ chan[selected].visible)

\* C1 witness: the selected channel was hidden and the selection moved on to
\* another registered, visible channel.
C1_Witness ==
    /\ last.op = "setVisibility" /\ ~last.flag /\ last.prevSel = last.id
    /\ selected # NoChannel /\ selected # last.id
    /\ Registered(last.id)

\* C2: without a deleteChannel(name) in between, getChannel(name) returns the
\* same instance every time, the map holds exactly one entry for the name, and
\* channel-added fires for the name on the first call only, and once.
C2_IdempotentCreation ==
    [][\A n \in Names :
        LET before == ChannelsGet(n)
            called == last'.op = "getChannel" /\ last'.name = n
            deleted == last'.op = "deleteChannel" /\ last'.name = n
            added == Len(SelectSeq(events', LAMBDA e : e.type = "added" /\ e.name = n))
        IN  /\ (before # NoChannel /\ ~deleted) =>
                  /\ ChannelsGet(n)' = before
                  /\ EntriesFor(n)' = 1
                  /\ added = 0
                  /\ called => last'.id = before
            /\ (before = NoChannel /\ called) =>
                  /\ ChannelsGet(n)' = last'.id
                  /\ last'.id # NoChannel
                  /\ EntriesFor(n)' = 1
                  /\ added = 1
            /\ ~called => added = 0
      ]_vars

\* C2 witness: getChannel returned an existing channel, created earlier, while
\* another channel had been created after it.
C2_Witness ==
    /\ last.op = "getChannel" /\ ~last.flag
    /\ Len(channels) >= 2 /\ last.id = channels[1]
    /\ events = <<>>

\* C3: deleting the selected channel selects the first remaining visible
\* channel in insertion order, or none; deleting another channel leaves the
\* selection unchanged.
C3_DeleteSelection ==
    (last.op = "deleteChannel" /\ last.flag) =>
        IF last.prevSel = last.id
        THEN selected = FirstVisibleRegistered
        ELSE selected = last.prevSel

\* C3 witness: the selected channel was deleted, the first remaining channel
\* is hidden and the one after it became selected.
C3_Witness ==
    /\ last.op = "deleteChannel" /\ last.flag /\ last.prevSel = last.id
    /\ Len(channels) = 2
    /\ ~chan[channels[1]].visible
    /\ selected = channels[2]

\* C4: a channel created while nothing is selected becomes selected; a channel
\* created while one is selected leaves the selection alone and fires no
\* selected-channel-changed notification.
C4_CreateSelection ==
    (last.op = "getChannel" /\ last.flag) =>
        IF last.prevSel = NoChannel
        THEN selected = last.id
        ELSE selected = last.prevSel /\ EventsOfType("selected") = <<>>

\* C4 witness: a channel was created while other channels existed and none
\* was selected, and it is selected now.
C4_Witness ==
    /\ last.op = "getChannel" /\ last.flag /\ last.prevSel = NoChannel
    /\ Len(channels) >= 2
    /\ selected = last.id

\* C5: hiding the selected channel while another registered channel is visible
\* selects the first visible channel in insertion order and fires exactly one
\* selected-channel-changed notification, with that channel's name.
C5_HideSelected ==
    (/\ last.op = "setVisibility" /\ ~last.flag /\ last.prevSel = last.id
     /\ FirstVisibleRegistered # NoChannel) =>
        /\ selected = FirstVisibleRegistered
        /\ events = <<[type |-> "selected", name |-> chan[FirstVisibleRegistered].name]>>

\* C5 witness: the selected channel was hidden while two other channels were
\* visible.
C5_Witness ==
    /\ last.op = "setVisibility" /\ ~last.flag /\ last.prevSel = last.id
    /\ Len(GetVisibleChannels) = 2
    /\ selected = GetVisibleChannels[1]
    /\ channels[1] = last.id

\* C6: showing a registered channel selects it; hiding a registered channel
\* that is not selected leaves the selection; hiding the selected channel when
\* no other channel is visible leaves nothing selected.
C6_VisibilitySelection ==
    (last.op = "setVisibility" /\ Registered(last.id)) =>
        /\ last.flag => selected = last.id
        /\ (~last.flag /\ last.prevSel # last.id) => selected = last.prevSel
        /\ (~last.flag /\ last.prevSel = last.id /\ FirstVisibleRegistered = NoChannel)
              => selected = NoChannel

\* C6 witness: a registered channel was shown while another one was selected.
C6_Witness ==
    /\ last.op = "setVisibility" /\ last.flag /\ Registered(last.id)
    /\ last.prevSel # NoChannel /\ last.prevSel # last.id
    /\ selected = last.id

\* C7: every assignment to the selected channel fires exactly one
\* selected-channel-changed notification with the name of the channel then
\* selected (absent for none), also when the value assigned is the old one.
C7_Assignments ==
    CASE last.op = "getChannel" ->
            IF last.flag /\ last.prevSel = NoChannel THEN 1 ELSE 0
      [] last.op = "deleteChannel" ->
            IF last.flag /\ last.prevSel = last.id THEN 1 ELSE 0
      [] last.op = "setVisibility" ->
            IF Registered(last.id) /\ (last.flag \/ last.prevSel = last.id) THEN 1 ELSE 0
      [] last.op = "setSelectedChannel" -> 1
      [] OTHER -> 0

C7_SelectionNotified ==
    LET fired == EventsOfType("selected")
    IN  /\ Len(fired) = C7_Assignments
        /\ fired # <<>> => fired[Len(fired)].name = NameOf(selected)
        /\ fired = <<>> => selected = last.prevSel

\* C7 witness: the channel that was selected already was assigned again, and
\* the notification fired.
C7_Witness ==
    /\ last.op \in {"setVisibility", "setSelectedChannel"}
    /\ selected # NoChannel /\ last.prevSel = selected
    /\ events = <<[type |-> "selected", name |-> chan[selected].name]>>

\* C8: a channel deleted before its text model resolved leaves, once the model
\* has resolved, no listener of the channel or of its resource on the text
\* model (so content changes cause no notification and no trimming for it).
C8_NoListenerOfDeletedChannel ==
    \A i \in Ids :
        (/\ chan[i].disposed /\ chan[i].disposedPending
         /\ res[chan[i].resource].state = "resolved") =>
            /\ <<"channel", i>> \notin Range(listeners[chan[i].resource])
            /\ <<"resource", chan[i].resource>> \notin Range(listeners[chan[i].resource])

\* C9: an append, appendLine or clear called before the text model resolved
\* is applied to the buffer once the model has resolved, and exactly once.
C9_EarlyOpsApplied ==
    /\ [](\A n \in 1..Len(ops) : ops[n].applied <= 1)
    /\ \A n \in 1..MaxOps :
          (/\ Len(ops) >= n /\ ops[n].early
           /\ res[chan[ops[n].ch].resource].state = "resolved")
          ~> (Len(ops) >= n /\ ops[n].applied = 1)

\* C9 witness: an appendLine and another operation, both called before the
\* model resolved, have both been applied.
C9_Witness ==
    /\ Len(ops) = 2
    /\ ops[1].k = "appendLine" /\ ops[1].early /\ ops[1].applied = 1
    /\ ops[2].early /\ ops[2].applied = 1

\* What remains is what was there, less its oldest lines: every line but the
\* first one that is kept is an unchanged line of the old content, in order,
\* and the first one kept is the end of the old line at its place.
OldestLinesRemoved(pre, post) ==
    LET k == Len(pre) - Len(post)
    IN  /\ k >= 0
        /\ \A i \in 2..Len(post) : post[i] = pre[k + i]
        /\ \E c \in 1..(Len(pre[k + 1]) + 1) :
              post[1] = SubSeq(pre[k + 1], c, Len(pre[k + 1]))

\* C10: when a content change of a channel's buffer and the trimming it
\* triggers are done, the buffer has no more lines than the channel's maximum
\* line count, and what was removed are the oldest lines.
C10_ScrollbackBound ==
    (last.op = "job" /\ last.flag) =>
        LET rid == chan[last.id].resource
        IN  /\ \A ch \in Ids :
                  (\/ (ch = last.id /\ ~chan[ch].disposed)
                   \/ <<"channel", ch>> \in Range(listeners[rid]))
                  => Len(buffer[rid]) <= chan[ch].maxLineNumber
            /\ OldestLinesRemoved(preTrim, buffer[rid])

\* C10 witness: an append made the buffer exceed a maximum of at least two
\* lines and the oldest lines were removed down to the maximum.
C10_Witness ==
    /\ last.op = "job" /\ last.name = "append" /\ last.flag
    /\ ~chan[last.id].disposed
    /\ last.removed >= 2
    /\ chan[last.id].maxLineNumber >= 2
    /\ Len(buffer[chan[last.id].resource]) = chan[last.id].maxLineNumber

\* No promise job is left and the text model of the resource is there.
Quiescent(rid) == microtasks = <<>> /\ res[rid].state = "resolved"

\* The last n lines appended by the calls made.
LastLines(n) == [i \in 1..n |-> ops[Len(ops) - n + i].text[1]]

\* C11: N lines appended one at a time to an empty channel with maximum line
\* count max, N > max, leave exactly the max-1 lines appended last in the
\* buffer, unmodified and in order.
C11_KeepsMaxLessOne ==
    \A id \in Ids :
        (/\ Created(id) /\ ~chan[id].disposed
         /\ Quiescent(chan[id].resource)
         /\ \A n \in 1..Len(ops) : ops[n].ch = id /\ ops[n].k = "appendLine"
         /\ chan[id].maxLineNumber >= 2
         /\ Len(ops) > chan[id].maxLineNumber) =>
            buffer[chan[id].resource] = LastLines(chan[id].maxLineNumber - 1)

\* C12: when the maximum-line-count preference changes, trimming is applied
\* again to every channel, without a further append, so that its buffer
\* satisfies the new bound; and a channel's bound is the configured value of
\* the preference from its creation on.
C12_PreferenceBound ==
    /\ (last.op = "job" /\ last.name = "trim" /\ ~chan[last.id].disposed) =>
           Len(buffer[chan[last.id].resource]) <= chan[last.id].maxLineNumber
    /\ \A id \in Ids :
           (Created(id) /\ ~chan[id].disposed) => chan[id].maxLineNumber = preference

\* C13: deleteChannel(name) for a name without a channel in the registry
\* changes neither the channel map nor the resource map nor the selected
\* channel, fires no notification and raises no error.
C13_DeleteUnknownNoOp ==
    [][(last'.op = "deleteChannel" /\ ChannelsGet(last'.name) = NoChannel) =>
          /\ channels' = channels
          /\ resources' = resources
          /\ selected' = selected
          /\ chan' = chan
          /\ events' = <<>>
          /\ last'.error = "none"
      ]_vars

\* C13 witness: a name whose channel was deleted before is deleted again,
\* while another channel is registered and selected.
C13_Witness ==
    /\ last.op = "deleteChannel" /\ ~last.flag
    /\ \E i \in Ids : Created(i) /\ chan[i].name = last.name
    /\ selected # NoChannel /\ Registered(selected)
    /\ events = <<>>

\* C14: after deleteChannel(name) of an existing channel the channel is not
\* among getChannels(), no resource is registered for the name, exactly one
\* channel-deleted notification with the name was fired; and setVisibility on
\* a deleted channel object neither changes the selection nor fires a
\* selected-channel-changed notification.
C14_DeletedChannelGone ==
    /\ (last.op = "deleteChannel" /\ last.flag) =>
           /\ ~Registered(last.id)
           /\ ChannelsGet(last.name) = NoChannel
           /\ resources[last.name] = NoChannel
           /\ EventsOfType("deleted") = <<[type |-> "deleted", name |-> last.name]>>
    /\ (last.op = "setVisibility" /\ ~Registered(last.id)) =>
           /\ selected = last.prevSel
           /\ events = <<>>

\* C14 witness: a deleted channel object was shown while another channel,
\* registered, was and stays selected.
C14_Witness ==
    /\ last.op = "setVisibility" /\ last.flag /\ ~Registered(last.id)
    /\ selected # NoChannel /\ Registered(selected)
    /\ chan[last.id].visible

\* The registry is as it was before the step.
RegistryUnchanged ==
    /\ channels' = channels
    /\ resources' = resources
    /\ selected' = selected
    /\ chan' = chan
    /\ res' = res
    /\ nextId' = nextId

\* C15: resolving a well-formed output: URI for which no resource is
\* registered fails with the not-found error and creates neither a channel
\* nor a resource.
C15_ResolveUnregistered ==
    [][(/\ last'.op = "resolve" /\ last'.scheme = "output"
        /\ resources[last'.name] = NoChannel) =>
          /\ last'.error = "not-found" /\ ~last'.flag /\ last'.id = NoChannel
          /\ RegistryUnchanged
          /\ events' = <<>>
      ]_vars

\* C15 witness: the URI of a channel that was deleted was resolved, while
\* another channel is registered, and not-found was the answer.
C15_Witness ==
    /\ last.op = "resolve" /\ last.scheme = "output" /\ last.error = "not-found"
    /\ \E i \in Ids : Created(i) /\ chan[i].name = last.name
    /\ channels # <<>>

\* C16: resolving a URI whose scheme is not output fails with the scheme
\* error whatever the registry holds, before any lookup, and leaves the channel
\* map, the resource map and the selection unchanged.
C16_ResolveWrongScheme ==
    [][(last'.op = "resolve" /\ last'.scheme # "output") =>
          /\ last'.error = "scheme" /\ ~last'.flag /\ last'.id = NoChannel
          /\ RegistryUnchanged
          /\ events' = <<>>
      ]_vars

\* C16 witness: a URI of another scheme was resolved whose path is the name
\* of a registered channel with a registered resource.
C16_Witness ==
    /\ last.op = "resolve" /\ last.scheme = "file" /\ last.error = "scheme"
    /\ ChannelsGet(last.name) # NoChannel
    /\ resources[last.name] # NoChannel

\* How often x occurs in the sequence q.
Count(q, x) == Cardinality({ i \in 1..Len(q) : q[i] = x })

\* C17: every mutation of a channel's buffer, by an applied append, by an
\* applied clear and by a trimming edit, is followed by a content-change
\* notification of the channel, also for operations called before the text
\* model resolved. A job makes up to two mutations: its own edit and the
\* trimming edit.
C17_MutationsNotified ==
    [][(/\ last'.op = "job" /\ last'.name \in {"append", "clear", "trim"}
        /\ ~chan[last'.id].disposed) =>
          LET rid == chan[last'.id].resource
              edited == IF preTrim' # buffer[rid] THEN 1 ELSE 0
              trimmed == IF buffer'[rid] # preTrim' THEN 1 ELSE 0
          IN  Count(last'.notified, last'.id) >= edited + trimmed
      ]_vars

\* C17 witness: an append called before the text model resolved was applied,
\* lines were trimmed, and the channel notified twice.
C17_Witness ==
    /\ last.op = "job" /\ last.name = "append"
    /\ Len(ops) = 1 /\ ops[1].early /\ ops[1].applied = 1
    /\ last.removed >= 1
    /\ last.notified = <<last.id, last.id>>

\* C18: after k appendLine calls on an initially empty channel, k below the
\* line bound, and once all pending work has run, the buffer is the k lines
\* in call order, a line terminator between each two; also when the calls are
\* made back to back.
C18_AppendLineOrder ==
    \A id \in Ids :
        (/\ Created(id) /\ ~chan[id].disposed
         /\ Quiescent(chan[id].resource)
         /\ Len(ops) >= 1
         /\ \A n \in 1..Len(ops) : ops[n].ch = id /\ ops[n].k = "appendLine"
         /\ Len(ops) < chan[id].maxLineNumber) =>
            buffer[chan[id].resource] = LastLines(Len(ops))

\* C20: when clear() is the last operation called on a channel, after any
\* append and appendLine calls, applied or not, the buffer is empty once all
\* pending work has run.
C20_ClearLast ==
    \A id \in Ids :
        (/\ Created(id) /\ ~chan[id].disposed
         /\ Quiescent(chan[id].resource)
         /\ Len(ops) >= 1
         /\ \A n \in 1..Len(ops) : ops[n].ch = id
         /\ ops[Len(ops)].k = "clear") =>
            buffer[chan[id].resource] = EmptyText

\* A text as one string of characters, the lines joined by the terminator.
RECURSIVE Flat(_)
Flat(text) ==
    IF Len(text) = 1 THEN text[1]
    ELSE text[1] \o <<"\n">> \o Flat(Tail(text))

\* C19: an applied append(text, severity) changes the buffer content from s
\* to s followed by text when no trimming is due (the line count stays below
\* the maximum), whatever the severity is.
C19_AppendAtEnd ==
    [][(/\ last'.op = "job" /\ last'.name = "append"
        /\ Len(buffer[chan[last'.id].resource]) + Len(Head(microtasks).text) - 1
              < chan[last'.id].maxLineNumber) =>
          LET rid == chan[last'.id].resource
          IN  /\ Flat(buffer'[rid]) = Flat(buffer[rid]) \o Flat(Head(microtasks).text)
              /\ \A r \in Ids \ {rid} : buffer'[r] = buffer[r]
      ]_vars

\* C19 witness: an append with severity Error was applied to a buffer that
\* an earlier append had filled, and left its decoration.
C19_Witness ==
    /\ last.op = "job" /\ last.name = "append"
    /\ Len(ops) = 2 /\ ops[1].applied = 1 /\ ops[2].applied = 1
    /\ Len(buffer[chan[last.id].resource]) >= 3
    /\ decorations[chan[last.id].resource] = <<"theia-output-error">>

\* C21: getVisibleChannels() returns exactly the registered channels that
\* are visible, in the order of their insertion into the registry (instance
\* ids grow with the time of creation, and a channel created again is a new
\* instance).
C21_VisibleInInsertionOrder ==
    /\ Range(GetVisibleChannels) = { id \in Ids : Registered(id) /\ chan[id].visible }
    /\ \A i, j \in 1..Len(GetVisibleChannels) :
          i < j => GetVisibleChannels[i] < GetVisibleChannels[j]

\* C21 witness: a channel was deleted and created again after another one,
\* and comes after that one.
C21_Witness ==
    /\ Len(GetVisibleChannels) = 2
    /\ \E i \in Ids :
          /\ Created(i) /\ ~Registered(i)
          /\ chan[i].name = chan[GetVisibleChannels[2]].name
          /\ i < GetVisibleChannels[1]


\* C22: the append, appendLine and clear commands never fail for a non-empty
\* channel name: afterwards the channel of that name is registered together
\* with its resource, a channel that did not exist was created with its
\* channel-added event, and the operation was called on the channel; the
\* dispose command on an unknown name raises no error.
C22_CommandsTotal ==
    /\ (last.op = "command" /\ last.name # ""
          /\ last.command \in {"append", "appendLine", "clear"}) =>
          /\ last.error = "none"
          /\ ChannelsGet(last.name) # NoChannel
          /\ resources[last.name] = chan[ChannelsGet(last.name)].resource
          /\ ~res[resources[last.name]].disposed
          /\ last.flag => EventsOfType("added") = <<[type |-> "added", name |-> last.name]>>
          /\ ops # <<>>
          /\ ops[Len(ops)].ch = ChannelsGet(last.name)
          /\ ops[Len(ops)].k = last.command
          /\ ops[Len(ops)].text = last.text
    /\ (last.op = "deleteChannel" /\ ~last.flag) => last.error = "none"

\* The jobs of the reads, in the reactions of the deferreds and in the job queue.
PendingReads(n) ==
    Cardinality({ r \in Ids : \E i \in 1..Len(res[r].reactions) :
                                 res[r].reactions[i].k = "read" /\ res[r].reactions[i].op = n })
    + Cardinality({ i \in 1..Len(microtasks) :
                      microtasks[i].k = "read" /\ microtasks[i].op = n })

\* C23: a readContents call on a channel's resource is never dropped and does
\* not fail, also when it is made before the text model has resolved: it stays
\* pending until the model has resolved, completes once and returns the buffer
\* content of the moment it completes; and every change of the buffer makes
\* the channel's resource fire its content-changed event.
C23_ReadsAndChangesDelivered ==
    /\ \A n \in 1..Len(ops) :
          ops[n].k = "read" =>
             /\ ops[n].applied + PendingReads(n) = 1
             /\ ops[n].applied = 1 => res[ops[n].ch].state = "resolved"
    /\ (last.op = "job" /\ last.name = "read") =>
          /\ last.error = "none"
          /\ last.text = GetValue(buffer[last.id])
    /\ (last.op = "job" /\ last.name # "read" /\ last.flag
          /\ ~res[chan[last.id].resource].disposed) =>
          chan[last.id].resource \in Range(last.resourceNotified)

\* C24: the set of locked channel names saved at shutdown is exactly the set
\* of names of the registered channels whose locked flag is set at that
\* moment, whatever set was restored at startup and whatever toggles happened.
C24_SavedLockState ==
    last.op = "shutdown" =>
        storage.saved = { chan[id].name : id \in { i \in Ids : Registered(i) /\ chan[i].locked } }

\* Shutdown after a restored name was unlocked, a name that was not restored
\* was locked, and a locked channel was deleted: the saved set differs from
\* the restored one.
C24_Witness ==
    /\ last.op = "shutdown"
    /\ storage.saved # storage.restored
    /\ storage.saved # {}
    /\ \E n \in storage.restored : n \notin storage.saved /\ ChannelsGet(n) # NoChannel
    /\ \E n \in storage.saved : n \notin storage.restored
    /\ \E i \in Ids : Created(i) /\ ~Registered(i) /\ chan[i].locked

\* The URI of a channel.
UriOf(id) == [scheme |-> SCHEME, name |-> chan[id].name]

\* C25: from getChannel's creation of a channel until its deletion, whether
\* the text model is still being created or has resolved, resolve of the
\* channel's URI succeeds and returns the resource instance created for the
\* channel; a resource whose model creation was requested is registered as
\* long as its channel is not deleted.
C25_ResolvableFromCreation ==
    /\ \A id \in Ids :
          Registered(id) =>
             /\ chan[id].resource = id
             /\ res[id].state \in {"pending", "resolved"}
             /\ ~res[id].disposed
             /\ ResolveOutcome(UriOf(id)) = [id |-> id, error |-> "none"]
    /\ \A rid \in Ids :
          (res[rid].state # "none" /\ ~res[rid].disposed) => Registered(rid)
    /\ (last.op = "resolve" /\ last.scheme = SCHEME /\ ChannelsGet(last.name) # NoChannel) =>
          /\ last.error = "none"
          /\ last.id = chan[ChannelsGet(last.name)].resource

\* resolve returns the resource of the second channel of a name while its
\* text model is unresolved; the first channel of the name was deleted.
C25_Witness ==
    /\ last.op = "resolve" /\ last.error = "none"
    /\ res[last.id].state = "pending"
    /\ Registered(last.id)
    /\ \E i \in Ids : Created(i) /\ ~Registered(i) /\ chan[i].name = last.name
                       /\ res[i].disposed

\* C26: the calls of append, appendLine and clear on one channel take effect
\* on its buffer in the order of the calls, whether they were made before or
\* after the text model resolved: whenever a call has been applied, every
\* call made on the channel before it has been applied too.
C26_EffectsInCallOrder ==
    \A m, n \in 1..Len(ops) :
        (m < n /\ ops[m].ch = ops[n].ch /\ ops[n].applied >= 1) => ops[m].applied >= 1

\* C27: the resource map and the channel map correspond one to one: a
\* resource is registered under a name exactly when a channel of that name is
\* in the channel map; it is that channel's resource, it is not disposed, and
\* every resource that is not registered any more is disposed.
C27_ResourcesMatchChannels ==
    /\ \A n \in Names :
          /\ (resources[n] # NoChannel) <=> (ChannelsGet(n) # NoChannel)
          /\ resources[n] # NoChannel =>
                /\ resources[n] = chan[ChannelsGet(n)].resource
                /\ ~res[resources[n]].disposed
    /\ \A rid \in Ids :
          res[rid].state # "none" =>
             (res[rid].disposed <=> \A n \in Names : resources[n] # rid)

\* After a deletion: a name without channel and resource whose old resource is
\* disposed, next to a name that has both.
C27_Witness ==
    /\ last.op = "deleteChannel" /\ last.flag
    /\ resources[last.name] = NoChannel /\ ChannelsGet(last.name) = NoChannel
    /\ res[chan[last.id].resource].disposed
    /\ \E n \in Names : resources[n] # NoChannel /\ ChannelsGet(n) # NoChannel

\* A channel instance created under a name that an earlier, deleted instance had.
Recreated(id) ==
    Created(id) /\ \E i \in Ids : i < id /\ chan[i].name = chan[id].name

\* C28: getChannel(name) after deleteChannel(name) returns a new instance,
\* distinct from the deleted one, with a new registered resource, and wired as
\* a first instance is: channel-added fires again, it becomes selected when
\* nothing is selected, its setVisibility calls drive the selection, and a
\* second deleteChannel(name) removes it and its resource.
C28_RecreatedFullyWired ==
    /\ (last.op = "getChannel" /\ last.flag /\ Recreated(last.id)) =>
          /\ \A i \in Ids : (i < last.id /\ chan[i].name = last.name) =>
                 /\ ~Registered(i) /\ chan[i].disposed
                 /\ chan[last.id].resource # chan[i].resource
                 /\ res[chan[i].resource].disposed
          /\ ChannelsGet(last.name) = last.id
          /\ resources[last.name] = chan[last.id].resource
          /\ ~res[chan[last.id].resource].disposed
          /\ EventsOfType("added") = <<[type |-> "added", name |-> last.name]>>
          /\ last.prevSel = NoChannel => selected = last.id
    /\ (last.op = "setVisibility" /\ Recreated(last.id) /\ Registered(last.id)) =>
          /\ last.flag => selected = last.id
          /\ (~last.flag /\ last.prevSel = last.id) => selected = FirstVisibleRegistered
    /\ (last.op = "deleteChannel" /\ last.flag /\ Recreated(last.id)) =>
          /\ ~Registered(last.id)
          /\ ChannelsGet(last.name) = NoChannel
          /\ resources[last.name] = NoChannel
          /\ chan[last.id].disposed
          /\ res[chan[last.id].resource].disposed
          /\ EventsOfType("deleted") = <<[type |-> "deleted", name |-> last.name]>>

\* The second channel of a name, selected, is deleted in its turn while
\* another channel is registered.
C28_Witness ==
    /\ last.op = "deleteChannel" /\ last.flag /\ Recreated(last.id)
    /\ last.prevSel = last.id
    /\ channels # <<>>

\* C29: for every name the channel-added and channel-deleted notifications
\* alternate, starting with channel-added, and the name is in the channel map
\* exactly when the last notification fired for it was channel-added: no name
\* is in the map at first; a step fires at most one of the two notifications
\* for a name; channel-added fires for a name that is not in the map and puts
\* it there, channel-deleted fires for a name that is in the map and removes
\* it, and a step that fires neither leaves the name's membership as it was.
C29_AddedDeletedAlternate ==
    /\ channels = <<>>
    /\ [][ \A n \in Names :
             LET before == ChannelsGet(n) # NoChannel
                 after == ChannelsGet(n)' # NoChannel
                 added == Count(events', [type |-> "added", name |-> n])
                 deleted == Count(events', [type |-> "deleted", name |-> n])
             IN  /\ added + deleted <= 1
                 /\ added = 1 => (~before /\ after)
                 /\ deleted = 1 => (before /\ ~after)
                 /\ added + deleted = 0 => (before <=> after)
       ]_vars

\* The third channel of one name was just created: added, deleted, added,
\* deleted, added.
C29_Witness ==
    /\ last.op = "getChannel" /\ last.flag /\ last.id = 3
    /\ chan[1].name = last.name /\ chan[2].name = last.name
    /\ EventsOfType("added") = <<[type |-> "added", name |-> last.name]>>

\* C30: when a listener registered on onChannelDeleted after the registry's
\* construction is called for a name, the channel is not among getChannels()
\* any more, and the selection fallback is done: the selected channel the
\* listener finds is not the deleted one, it is the selection the call ends
\* with, and the selected-channel-changed notifications of the call have
\* been fired.
C30_ListenerSeesFallbackDone ==
    (last.op = "deleteChannel" /\ last.flag) =>
        /\ ~Registered(last.id)
        /\ last.seen.selected # last.id
        /\ last.seen.selected = selected
        /\ last.seen.events = EventsOfType("selected")

\* The selected channel was deleted and the selection moved to another
\* channel, with its notification, before the listener was called.
C30_Witness ==
    /\ last.op = "deleteChannel" /\ last.flag
    /\ last.prevSel = last.id
    /\ last.seen.selected # NoChannel
    /\ last.seen.events = <<[type |-> "selected", name |-> chan[selected].name]>>

\* C31: once the output widget has handled a selected-channel-changed
\* notification, its editor container holds at most one editor widget, also
\* when notifications arrive while an editor widget is being created; and
\* when no creation is pending, that widget shows the selected channel, and
\* there is none when no channel is selected.
C31_OneEditorWidget ==
    widget.handled =>
        /\ Len(widget.container) <= 1
        /\ widget.pending = {} =>
              IF selected = NoChannel THEN widget.container = <<>>
              ELSE /\ Len(widget.container) = 1
                   /\ widget.container[1].name = chan[selected].name

\* C32: the trimming that a content change triggers terminates: the handler's
\* edit re-enters the handler, and after fewer than MaxReentries re-entries
\* the handler applies no further edit, so that the content it leaves is one
\* it does not edit; for every content and every maximum of at least 1, also
\* when the line count equals the maximum. The handler runs in the jobs that
\* fire the content change and in the job of the maxLineNumber setter.
C32_TrimmingTerminates ==
    (last.op = "job" /\ (last.flag \/ last.name = "trim") /\ ~chan[last.id].disposed
       /\ <<"channel", last.id>> \in Range(listeners[chan[last.id].resource])
       /\ chan[last.id].maxLineNumber >= 1) =>
        LET max == chan[last.id].maxLineNumber
            rid == chan[last.id].resource
        IN  /\ Reentries(preTrim, max, MaxReentries) < MaxReentries
            /\ Reentries(buffer[rid], max, MaxReentries) = 0
            /\ last.flag => Len(last.notified) = 1 + Reentries(preTrim, max, MaxReentries)

\* A content change left exactly the maximum of lines, the first with leading
\* whitespace: the handler made one edit and its re-entry made none.
C32_Witness ==
    /\ last.op = "job" /\ last.flag
    /\ Len(preTrim) = chan[last.id].maxLineNumber
    /\ Reentries(preTrim, chan[last.id].maxLineNumber, MaxReentries) = 1
    /\ buffer[chan[last.id].resource] # preTrim

\* The registry, the channels, the buffers and the pending work.
registryVars == <<channels, resources, selected, toDisposeOnChannelDeletion, chan, res,
                  nextId, buffer, listeners, microtasks, decorations, ops>>

\* C33: the show and hide commands change no registry state, for any name:
\* they create no channel, change no channel's visibility, leave the selected
\* channel as it is and fire no notification.
C33_ShowHideNoEffect ==
    [][ (last'.op = "command" /\ last'.command \in {"show", "hide"}) =>
           /\ UNCHANGED registryVars
           /\ events' = <<>>
           /\ last'.error = "none"
      ]_vars

\* hide was executed for the selected, visible channel.
C33_Witness ==
    /\ last.op = "command" /\ last.command = "hide"
    /\ ChannelsGet(last.name) # NoChannel
    /\ selected = ChannelsGet(last.name)
    /\ chan[selected].visible

\* C34: the append and appendLine commands with an empty name or an empty
\* text, and the clear and dispose commands with an empty name, change
\* nothing: no channel is created, no buffer is modified, no work is queued
\* and no notification fires.
C34_EmptyPayloadNoEffect ==
    [][ (/\ last'.op = "command"
         /\ \/ last'.name = ""
            \/ last'.command \in {"append", "appendLine"} /\ last'.text = EmptyText
         /\ last'.command \in {"append", "appendLine", "clear", "dispose"}) =>
           /\ UNCHANGED registryVars
           /\ events' = <<>>
           /\ last'.error = "none"
      ]_vars

\* The appendLine command was executed with an empty line for a channel that
\* exists and has content: no line was added.
C34_Witness ==
    /\ last.op = "command" /\ last.command = "appendLine"
    /\ last.name # "" /\ last.text = EmptyText
    /\ ChannelsGet(last.name) # NoChannel
    /\ buffer[chan[ChannelsGet(last.name)].resource] # EmptyText
    /\ microtasks = <<>>

\* C35: a preference-changed event for a preference other than
\* output.maxChannelHistory leaves every channel's maximum line count as it
\* is, queues no trimming, changes no buffer and fires no notification; an
\* event for output.maxChannelHistory whose new value is absent or zero sets
\* the maximum of every channel that is not disposed to the schema default.
C35_OtherPreferencesIgnored ==
    [][ last'.op = "preferenceChanged" =>
           /\ last'.name # "output.maxChannelHistory" =>
                 /\ UNCHANGED <<chan, res, microtasks, buffer, listeners>>
                 /\ events' = <<>>
                 /\ last'.notified = <<>>
           /\ (last'.name = "output.maxChannelHistory" /\ last'.value = NoValue) =>
                 \A id \in Ids :
                    (Created(id) /\ ~chan[id].disposed) =>
                        chan'[id].maxLineNumber = SchemaDefault
      ]_vars

\* An event for output.maxChannelHistory without a new value reached a
\* channel whose buffer has more lines than the schema default.
C35_Witness ==
    /\ last.op = "preferenceChanged"
    /\ last.name = "output.maxChannelHistory" /\ last.value = NoValue
    /\ Created(1) /\ chan[1].maxLineNumber = SchemaDefault
    /\ Len(buffer[chan[1].resource]) > SchemaDefault

\* C36: showMessage returns the action, among the actions passed in, whose
\* title is the title chosen in the message service, and undefined when
\* nothing was chosen; for a message type other than Error, Warning, Info and
\* Log it returns undefined without a call of the message service; and the
\* result is always one of the actions passed in or undefined.
C36_ShowMessageResult ==
    window.phase = "returned" =>
        /\ window.type \in MessageTypes =>
              IF window.chosen = Undefined THEN window.result = Undefined
              ELSE /\ window.result # Undefined
                   /\ window.result[1] \in Range(window.actions)
                   /\ window.result[1].title = window.chosen[1]
        /\ window.type \notin MessageTypes =>
              window.result = Undefined /\ window.service = "none"
        /\ window.result = Undefined \/ window.result[1] \in Range(window.actions)

====
